---- MODULE Spec2Model ----
(***************************************************************************)
(* File transfer of WebRTCService (src/src/app/services/network.service.ts *)
(* lines 216-687): sendFile on the sending instance, the data channel, and *)
(* handleIncomingData on the receiving instance.                           *)
(*                                                                         *)
(* Byte buffers are kept symbolically, as sequences of runs: a run         *)
(* [src, lo, hi] stands for the bytes lo..hi-1 of source src, where src is *)
(* the id of a file handed to sendFile (every byte of a file is its own    *)
(* symbol), ZeroSrc for the zero bytes of a fresh Uint8Array, and JunkSrc  *)
(* for bytes a peer made up.  This keeps CHUNK_SIZE at its real value.     *)
(***************************************************************************)
EXTENDS Integers, Sequences, FiniteSets, TLC

\* ---------------------------------------------------------------- constants
CHUNK_SIZE == 16384
MAX_CHUNK_SIZE == 65536

\* ------------------------------------------------------------------- bounds
\* File sizes go up to MaxChunks * CHUNK_SIZE + 1 bytes.
MaxChunks == 2
\* Data connections the sending peer sees over a run.
MaxConns == 2
\* Calls of sendFile over a run.
MaxSends == 1
\* Messages a foreign peer sends over a run, and the chunk indexes it uses.
MaxForeign == 4
MaxIndex == 2
\* Values a subscriber has been handed beyond which cleanup() is not called again.
MaxObserved == 3
\* Successful calls of WebRTCService.downloadFile counted for one component.
MaxDownloads == 2

\* ------------------------------------------------------------ byte buffers
ZeroSrc == 0
JunkSrc == -1

Min(a, b) == IF a < b THEN a ELSE b

Run(src, lo, hi) == [src |-> src, lo |-> lo, hi |-> hi]

\* The runs of a single run of n bytes (none when n = 0).
Bytes(src, lo, hi) == IF hi > lo THEN <<Run(src, lo, hi)>> ELSE <<>>

RECURSIVE ByteLength(_)
ByteLength(b) ==
  IF b = <<>> THEN 0 ELSE (Head(b).hi - Head(b).lo) + ByteLength(Tail(b))

\* b1 followed by b2; two runs that continue each other become one.
Concat(b1, b2) ==
  IF b1 = <<>> THEN b2
  ELSE IF b2 = <<>> THEN b1
  ELSE LET l == b1[Len(b1)]
           r == Head(b2)
       IN IF l.src = r.src /\ l.src = ZeroSrc
          THEN SubSeq(b1, 1, Len(b1) - 1)
                 \o <<Run(ZeroSrc, 0, (l.hi - l.lo) + (r.hi - r.lo))>>
                 \o Tail(b2)
          ELSE IF l.src = r.src /\ l.src > ZeroSrc /\ l.hi = r.lo
          THEN SubSeq(b1, 1, Len(b1) - 1) \o <<Run(l.src, l.lo, r.hi)>> \o Tail(b2)
          ELSE b1 \o b2

\* new Uint8Array(n): n zero bytes.
Zeros(n) == Bytes(ZeroSrc, 0, n)

\* ArrayBuffer.slice(start, end) with 0 <= start.
RECURSIVE Slice(_, _, _)
Slice(b, start, end) ==
  IF b = <<>> \/ end <= start THEN <<>>
  ELSE LET r == Head(b)
           n == r.hi - r.lo
       IN IF start >= n THEN Slice(Tail(b), start - n, end - n)
          ELSE Concat(IF r.src = ZeroSrc
                      THEN Zeros(Min(end, n) - start)
                      ELSE Bytes(r.src, r.lo + start, r.lo + Min(end, n)),
                      Slice(Tail(b), 0, end - n))

\* Math.ceil(n / d) for naturals n, d > 0.
Ceil(n, d) == (n + d - 1) \div d

\* Math.round((b / t) * 100): halves round up; 0/0 is NaN, x/0 is Infinity.
\* The quotient is taken exactly here.  In double arithmetic (b / t) * 100 falls
\* just below a half for a few ratios (115/200 gives 57.49999999999999), which
\* no byte count of this model reaches.
NaN == -1
Infinity == -2
Percentage(b, t) ==
  IF t = 0 THEN (IF b = 0 THEN NaN ELSE Infinity)
  ELSE (200 * b + t) \div (2 * t)

\* ------------------------------------------------------------------- files
FileType == "application/octet-stream"
FileSizes ==
  {n \in {k * CHUNK_SIZE + d : k \in 0..MaxChunks, d \in {-1, 0, 1}} : n >= 0}

\* The k-th file handed to sendFile has id k: its bytes are its own.
MakeFile(id, size) ==
  [id |-> id, name |-> "file", size |-> size, type |-> FileType]
NoFile == [id |-> 0]

\* file.arrayBuffer()
ArrayBufferOf(f) == Bytes(f.id, 0, f.size)

\* ------------------------------------------------------------------ status
NULL == [status |-> "null"]
NoError == "undefined"
NoPayload == [absent |-> TRUE]

Status(bytes, total, pct, name, st) ==
  [bytesTransferred |-> bytes, totalBytes |-> total, percentage |-> pct,
   fileName |-> name, status |-> st, error |-> NoError, file |-> NoPayload]

\* new File([new Blob([fileArray])], fileName, {type})
NewFile(content, name, type) ==
  [name |-> name, type |-> type, content |-> content, size |-> ByteLength(content)]

\* ---------------------------------------------------------------- messages
MetadataMsg(name, size, type) ==
  [type |-> "file-metadata", fileName |-> name, fileSize |-> size, fileType |-> type]
ChunkMsg(index, data, isLast) ==
  [type |-> "file-chunk", chunkIndex |-> index, data |-> data, isLast |-> isLast]
CompleteMsg == [type |-> "file-complete"]

\* Chunk data that the Uint8Array constructor rejects (it throws).
Malformed == <<Run(JunkSrc, 0, -1)>>

\* ------------------------------------------------------------------- state
VARIABLES
  \* the data connections: "none", "pending" (created, not open), "open", "closed"
  connState,
  \* the sending instance
  peer,             \* this.peer is set
  isConnected,      \* this.isConnected
  dataConnection,   \* this.dataConnection: a connection, or 0 for null
  progressSubject,  \* this.progressSubject.value
  pc,               \* where the current sendFile call stands
  file,             \* sendFile's argument
  i,                \* sendFile's loop variable
  sendError,        \* what the last sendFile call threw
  sends,            \* calls of sendFile so far
  trace,            \* what the current sendFile call sent and published, in order
  observer,         \* a subscriber of progress$ and the values it was handed
  \* the channel towards the receiving instance
  wire,
  foreign,
  \* the receiving instance
  rxConnection,     \* its this.dataConnection
  fileMetadata,     \* its this.fileMetadata
  receivedChunks,   \* its this.receivedChunks
  rxProgress,       \* its this.progressSubject.value
  rxLog,            \* the channel's deliveries since the metadata that found it Idle
  rxEvent,          \* the last call of one of its handlers, with the state before
  rxCancelled,      \* cleanup() cut a transfer short, and since then came nothing
                    \* but chunk and completion messages
  \* the Download component of the receiving side
  download          \* its fields, its pending timers and what it has downloaded

senderVars ==
  <<peer, isConnected, dataConnection, progressSubject, pc, file, i, sendError,
    sends, trace, observer>>
receiverVars ==
  <<rxConnection, fileMetadata, receivedChunks, rxProgress, rxLog, rxEvent,
    rxCancelled>>
vars == <<connState, senderVars, wire, foreign, receiverVars, download>>

Conns == 1..MaxConns
NoMetadata == [fileName |-> "null"]
NoEvent == [kind |-> "none"]

\* ------------------------------------------------------- the received array
\* A slot of this.receivedChunks: a hole (undefined) or a Uint8Array.
Hole == [defined |-> FALSE]
Slot(bytes) == [defined |-> TRUE, bytes |-> bytes]

\* new Array(n)
NewArray(n) == [k \in 1..n |-> Hole]

\* array[index] = value, for an index >= 0: a write past the end grows the array.
ArraySet(array, index, value) ==
  [k \in 1..(IF index + 1 > Len(array) THEN index + 1 ELSE Len(array)) |->
     IF k = index + 1 THEN value
     ELSE IF k <= Len(array) THEN array[k] ELSE Hole]

\* .filter(chunk => chunk !== undefined && chunk !== null)
\*   .reduce((acc, chunk) => acc + chunk.length, 0)
RECURSIVE BytesReceived(_)
BytesReceived(array) ==
  IF array = <<>> THEN 0
  ELSE (IF Head(array).defined THEN ByteLength(Head(array).bytes) ELSE 0)
         + BytesReceived(Tail(array))

\* Faulty variant: fileArray.set(chunk), which writes at offset 0.
TypedArraySetAtStart(fileArray, chunk, offset) ==
  Concat(chunk, Slice(fileArray, ByteLength(chunk), ByteLength(fileArray)))

\* fileArray.set(chunk, offset), for a chunk that fits.
TypedArraySet(fileArray, chunk, offset) ==
  Concat(Concat(Slice(fileArray, 0, offset), chunk),
         Slice(fileArray, offset + ByteLength(chunk), ByteLength(fileArray)))

\* The reconstruction loop from index k on: every chunk that is present and not
\* empty is set at the running offset; set throws a RangeError when the chunk
\* does not fit in what is left of fileArray.
RECURSIVE ReconstructLoop(_, _, _, _)
ReconstructLoop(array, k, fileArray, offset) ==
  IF k > Len(array)
  THEN [threw |-> FALSE, fileArray |-> fileArray, totalReceived |-> offset]
  ELSE LET chunk == array[k]
       IN IF chunk.defined /\ ByteLength(chunk.bytes) > 0
          THEN IF offset + ByteLength(chunk.bytes) > ByteLength(fileArray)
               THEN [threw |-> TRUE, fileArray |-> fileArray, totalReceived |-> offset]
               ELSE ReconstructLoop(array, k + 1,
                                    TypedArraySet(fileArray, chunk.bytes, offset),
                                    offset + ByteLength(chunk.bytes))
          ELSE ReconstructLoop(array, k + 1, fileArray, offset)

\* ------------------------------------------------------ handleIncomingData
\* What one call does to the receiving instance: its fields afterwards, the
\* statuses it published, in order, and whether it threw.
Handled(meta, chunks, published, threw) ==
  [fileMetadata |-> meta, receivedChunks |-> chunks, published |-> published,
   threw |-> threw]

\* Faulty variant: Math.floor in place of Math.ceil for totalChunks.
OnFileMetadataFloor(meta, chunks, data) ==
  Handled([fileName |-> data.fileName, fileSize |-> data.fileSize,
           fileType |-> data.fileType],
          NewArray(data.fileSize \div CHUNK_SIZE),
          <<Status(0, data.fileSize, 0, data.fileName, "transferring")>>,
          FALSE)

\* Faulty variant: the array is allocated only when none is held.
OnFileMetadataKeepsChunks(meta, chunks, data) ==
  Handled([fileName |-> data.fileName, fileSize |-> data.fileSize,
           fileType |-> data.fileType],
          IF meta = NoMetadata THEN NewArray(Ceil(data.fileSize, CHUNK_SIZE))
          ELSE chunks,
          <<Status(0, data.fileSize, 0, data.fileName, "transferring")>>,
          FALSE)

\* Faulty variant: the array is emptied but not sized.
OnFileMetadataNoSlots(meta, chunks, data) ==
  Handled([fileName |-> data.fileName, fileSize |-> data.fileSize,
           fileType |-> data.fileType],
          <<>>,
          <<Status(0, data.fileSize, 0, data.fileName, "transferring")>>,
          FALSE)

OnFileMetadata(meta, chunks, data) ==
  Handled([fileName |-> data.fileName, fileSize |-> data.fileSize,
           fileType |-> data.fileType],
          NewArray(Ceil(data.fileSize, CHUNK_SIZE)),
          <<Status(0, data.fileSize, 0, data.fileName, "transferring")>>,
          FALSE)

\* Faulty variant: this.receivedChunks.push(chunkData).
StoreChunkPush(chunks, index, chunkData) == Append(chunks, Slot(chunkData))

\* this.receivedChunks[data.chunkIndex] = chunkData
StoreChunk(chunks, index, chunkData) == ArraySet(chunks, index, Slot(chunkData))

\* The try block of the file-chunk branch; what it throws is caught and logged.
StoreAndReport(meta, chunks, data) ==
  IF data.data = Malformed
  THEN Handled(meta, chunks, <<>>, FALSE)   \* thrown and caught: logged only
  ELSE LET stored == StoreChunk(chunks, data.chunkIndex, data.data)
           bytesReceived == BytesReceived(stored)
       IN IF meta = NoMetadata
          THEN Handled(meta, stored, <<>>, FALSE)   \* null.fileSize: thrown and caught
          ELSE Handled(meta, stored,
                       <<Status(bytesReceived, meta.fileSize,
                                Percentage(bytesReceived, meta.fileSize),
                                meta.fileName, "transferring")>>,
                       FALSE)

\* Faulty variant: the try block is entered without the test for metadata.
OnFileChunkUnguarded(meta, chunks, data) == StoreAndReport(meta, chunks, data)

OnFileChunk(meta, chunks, data) ==
  IF meta = NoMetadata THEN Handled(meta, chunks, <<>>, FALSE)
  ELSE StoreAndReport(meta, chunks, data)

\* Faulty variant: the Blob is made of fileArray.subarray(0, totalReceived).
OnFileCompleteTruncates(meta, chunks, data) ==
  IF meta = NoMetadata THEN Handled(meta, chunks, <<>>, FALSE)
  ELSE LET loop == ReconstructLoop(chunks, 1, Zeros(meta.fileSize), 0)
       IN IF loop.threw THEN Handled(meta, chunks, <<>>, TRUE)
          ELSE Handled(NoMetadata, <<>>,
                       <<[Status(meta.fileSize, meta.fileSize, 100, meta.fileName,
                                 "completed")
                            EXCEPT !.file = NewFile(Slice(loop.fileArray, 0,
                                                          loop.totalReceived),
                                                    meta.fileName, meta.fileType)]>>,
                       FALSE)

\* Faulty variant: the fields are not reset after the file is published.
OnFileCompleteNoReset(meta, chunks, data) ==
  IF meta = NoMetadata THEN Handled(meta, chunks, <<>>, FALSE)
  ELSE LET loop == ReconstructLoop(chunks, 1, Zeros(meta.fileSize), 0)
       IN IF loop.threw THEN Handled(meta, chunks, <<>>, TRUE)
          ELSE Handled(meta, chunks,
                       <<[Status(meta.fileSize, meta.fileSize, 100, meta.fileName,
                                 "completed")
                            EXCEPT !.file = NewFile(loop.fileArray, meta.fileName,
                                                    meta.fileType)]>>,
                       FALSE)

OnFileComplete(meta, chunks, data) ==
  IF meta = NoMetadata THEN Handled(meta, chunks, <<>>, FALSE)
  ELSE LET loop == ReconstructLoop(chunks, 1, Zeros(meta.fileSize), 0)
       IN IF loop.threw THEN Handled(meta, chunks, <<>>, TRUE)
          ELSE Handled(NoMetadata, <<>>,
                       <<[Status(meta.fileSize, meta.fileSize, 100, meta.fileName,
                                 "completed")
                            EXCEPT !.file = NewFile(loop.fileArray, meta.fileName,
                                                    meta.fileType)]>>,
                       FALSE)

HandleIncomingData(meta, chunks, data) ==
  IF data.type = "file-metadata" THEN OnFileMetadata(meta, chunks, data)
  ELSE IF data.type = "file-chunk" THEN OnFileChunk(meta, chunks, data)
  ELSE IF data.type = "file-complete" THEN OnFileComplete(meta, chunks, data)
  ELSE Handled(meta, chunks, <<>>, FALSE)

\* ----------------------------------------------------------------- sendFile
\* What a sendFile call does, in order: messages handed to a connection's send
\* and statuses handed to progressSubject.next.
SendEv(conn, msg) == [ev |-> "send", conn |-> conn, msg |-> msg]
PublishEv(status) == [ev |-> "publish", status |-> status]
CleanupEv == [ev |-> "cleanup"]

IsSend(e) == e.ev = "send"
IsPublish(e) == e.ev = "publish"
Sends(evs) == SelectSeq(evs, IsSend)
Publishes(evs) == SelectSeq(evs, IsPublish)
MsgsOf(evs) == [k \in 1..Len(Sends(evs)) |-> Sends(evs)[k].msg]

\* Faulty variant: the check forgets dataConnection.open.
NotReadyIgnoresOpen(connected, conn, states) ==
  \/ ~connected
  \/ conn = 0

\* !this.isConnected || !this.dataConnection || this.dataConnection.open === false
NotReady(connected, conn, states) ==
  \/ ~connected
  \/ conn = 0
  \/ states[conn] /= "open"

\* Faulty variant: Math.floor(...) + 1, a trailing chunk after an exact multiple.
ChunkCountTrailing(totalBytes) == totalBytes \div CHUNK_SIZE + 1

\* Faulty variant: Math.floor in place of Math.ceil.
ChunkCountFloor(totalBytes) == totalBytes \div CHUNK_SIZE

\* const chunks = Math.ceil(totalBytes / this.CHUNK_SIZE)
ChunkCount(totalBytes) == Ceil(totalBytes, CHUNK_SIZE)

ChunkStart(index) == index * CHUNK_SIZE
ChunkEnd(index, totalBytes) == Min(ChunkStart(index) + CHUNK_SIZE, totalBytes)

\* fileBuffer.slice(start, end)
ChunkData(fileBuffer, index, totalBytes) ==
  Slice(fileBuffer, ChunkStart(index), ChunkEnd(index, totalBytes))

\* The chunk message of the loop's round index.
\* Faulty variant: isLast compares with chunks in place of chunks - 1.
ChunkMessageLastOffByOne(f, index) ==
  ChunkMsg(index, ChunkData(ArrayBufferOf(f), index, f.size),
           index = ChunkCount(f.size))

ChunkMessage(f, index) ==
  ChunkMsg(index, ChunkData(ArrayBufferOf(f), index, f.size),
           index = ChunkCount(f.size) - 1)

\* Faulty variant: the completed status is published before the message is sent.
CompletionPublishedFirst(f, conn) ==
  <<PublishEv(Status(f.size, f.size, 100, f.name, "completed")),
    SendEv(conn, CompleteMsg)>>

\* Faulty variant: the completed status without the completion message.
CompletionNotSent(f, conn) ==
  <<PublishEv(Status(f.size, f.size, 100, f.name, "completed"))>>

\* The completion message and the completed status that end the call.
Completion(f, conn) ==
  <<SendEv(conn, CompleteMsg),
    PublishEv(Status(f.size, f.size, 100, f.name, "completed"))>>

\* Faulty variant: the completion message is tied to the last chunk, so a file
\* with no chunk gets none.
AfterReadNoCompletion(f, conn) ==
  <<SendEv(conn, MetadataMsg(f.name, f.size, f.type)),
    PublishEv(Status(0, f.size, 0, f.name, "transferring"))>>
  \o (IF 0 < ChunkCount(f.size) THEN <<>>
      ELSE <<PublishEv(Status(f.size, f.size, 100, f.name, "completed"))>>)

\* Faulty variant: the metadata message is left out.
AfterReadNoMetadata(f, conn) ==
  <<PublishEv(Status(0, f.size, 0, f.name, "transferring"))>>
  \o (IF 0 < ChunkCount(f.size) THEN <<>> ELSE Completion(f, conn))

\* From the end of the file read to the first pacing delay, or to the end of the
\* call when the file has no chunk.
AfterRead(f, conn) ==
  <<SendEv(conn, MetadataMsg(f.name, f.size, f.type)),
    PublishEv(Status(0, f.size, 0, f.name, "transferring"))>>
  \o (IF 0 < ChunkCount(f.size) THEN <<>> ELSE Completion(f, conn))

\* Faulty variant: bytesSent = start, the offset at which the chunk begins.
AfterDelayReportsStart(f, index, conn) ==
  <<SendEv(conn, ChunkMessage(f, index)),
    PublishEv(Status(ChunkStart(index), f.size,
                     Percentage(ChunkStart(index), f.size),
                     f.name, "transferring"))>>
  \o (IF index + 1 < ChunkCount(f.size) THEN <<>> ELSE Completion(f, conn))

\* From the end of the pacing delay of chunk index to the next delay, or to the
\* end of the call after the last chunk.
AfterDelay(f, index, conn) ==
  <<SendEv(conn, ChunkMessage(f, index)),
    PublishEv(Status(ChunkEnd(index, f.size), f.size,
                     Percentage(ChunkEnd(index, f.size), f.size),
                     f.name, "transferring"))>>
  \o (IF index + 1 < ChunkCount(f.size) THEN <<>> ELSE Completion(f, conn))

\* A message reaches the receiving instance when it is sent on the connection
\* that instance holds, while that connection is open.
Carried(evs) ==
  LET ok(e) == IsSend(e) /\ e.conn = rxConnection /\ connState[e.conn] = "open"
  IN MsgsOf(SelectSeq(evs, ok))

\* progress$ = this.progressSubject.asObservable(), a BehaviorSubject: a new
\* subscriber is handed the current value at once, and next(value) hands the
\* value to every subscriber.
NoObserver == [on |-> FALSE]

\* Faulty variant: a plain Subject, which hands a new subscriber nothing.
OnSubscribeNoReplay(value) == <<>>

OnSubscribe(value) == <<value>>

Notify(obs, values) ==
  IF obs.on THEN [obs EXCEPT !.seen = @ \o values] ELSE obs

StatusesOf(evs) == [k \in 1..Len(Publishes(evs)) |-> Publishes(evs)[k].status]

\* Faulty variant: the statuses of the stretch are published although the
\* connection is null (as with this.dataConnection?.send).
UpToThrowStillPublishes(conn, evs) ==
  IF conn = 0 THEN Publishes(evs) ELSE evs

\* this.dataConnection.send(...) with this.dataConnection null throws a
\* TypeError: of a stretch of sendFile only what precedes its first send
\* takes place.
UpToThrow(conn, evs) ==
  IF conn = 0
  THEN LET firstSend == CHOOSE k \in 1..(Len(evs) + 1) :
                          /\ k <= Len(evs) => IsSend(evs[k])
                          /\ \A n \in 1..(k - 1) : ~IsSend(evs[n])
       IN SubSeq(evs, 1, firstSend - 1)
  ELSE evs

\* The effect of a stretch of sendFile on the log, the channel and the subject.
Emit(evs) ==
  /\ trace' = trace \o evs
  /\ observer' = Notify(observer, StatusesOf(evs))
  /\ wire' = wire \o Carried(evs)
  /\ progressSubject' =
       IF Publishes(evs) = <<>> THEN progressSubject
       ELSE Publishes(evs)[Len(Publishes(evs))].status

\* --------------------------------------------------------------------- Init
\* The Download component after its constructor, on the given platform
\* (isPlatformBrowser(this.platformId)).  Besides the fields: where the
\* component stands in its life cycle, the state of connectToSender, the
\* timers set and not yet fired, the successful calls of
\* WebRTCService.downloadFile with the file of the last one, whether a call
\* threw, and whether a trigger was ignored because a download had started.
NewDownload(browser) ==
  [browser |-> browser, stage |-> "constructed", roomId |-> "",
   progress |-> NULL, error |-> "", isConnecting |-> TRUE,
   downloadedFile |-> NoPayload, autoDownloadAttempted |-> FALSE,
   downloadTriggered |-> FALSE, downloadStarted |-> FALSE,
   progressSub |-> FALSE, connect |-> "none",
   timers |-> [auto |-> 0, click |-> 0, view |-> 0],
   downloads |-> 0, saved |-> NoPayload, thrown |-> FALSE, ignored |-> FALSE]

\* The two service instances after construction.
InitServices ==
  /\ connState = [c \in Conns |-> "none"]
  /\ peer = FALSE
  /\ isConnected = FALSE
  /\ dataConnection = 0
  /\ progressSubject = NULL
  /\ pc = "idle"
  /\ file = NoFile
  /\ i = 0
  /\ sendError = "none"
  /\ sends = 0
  /\ trace = <<>>
  /\ observer = NoObserver
  /\ wire = <<>>
  /\ foreign = 0
  /\ rxConnection = 0
  /\ fileMetadata = NoMetadata
  /\ receivedChunks = <<>>
  /\ rxProgress = NULL
  /\ rxLog = <<>>
  /\ rxEvent = NoEvent
  /\ rxCancelled = FALSE

Init ==
  /\ InitServices
  /\ download = NewDownload(TRUE)

\* The same, with the Download component in the browser or on the server.
DownloadInit ==
  /\ InitServices
  /\ \E browser \in BOOLEAN : download = NewDownload(browser)

\* ------------------------------------------------- the sending instance
\* initializeAsSender: new Peer(roomId).
InitializeAsSender ==
  /\ ~peer
  /\ peer' = TRUE
  /\ UNCHANGED <<connState, isConnected, dataConnection, progressSubject, pc, file,
                 i, sendError, sends, trace, observer, wire, foreign, receiverVars, download>>

\* The connection a new peer gets: the lowest one not used yet.
Fresh(c) ==
  /\ connState[c] = "none"
  /\ \A d \in Conns : d < c => connState[d] /= "none"

\* peer.on('connection', conn => ...), for a connection that is not open yet.
OnConnection(c) ==
  /\ connState' = [connState EXCEPT ![c] = "pending"]
  /\ dataConnection' = c
  /\ isConnected' = TRUE

\* Some other peer connects to the sending instance.
PeerConnection ==
  /\ peer
  /\ \E c \in Conns : Fresh(c) /\ OnConnection(c)
  /\ UNCHANGED <<peer, progressSubject, pc, file, i, sendError, sends, trace,
                 observer, wire, foreign, receiverVars, download>>

\* initializeAsReceiver on the receiving instance: this.peer.connect(senderId),
\* which raises 'connection' on the sending instance.
InitializeAsReceiver ==
  /\ peer
  /\ rxConnection = 0
  /\ \E c \in Conns : Fresh(c) /\ OnConnection(c) /\ rxConnection' = c
  /\ UNCHANGED <<peer, progressSubject, pc, file, i, sendError, sends, trace,
                 observer, wire,
                 foreign, fileMetadata, receivedChunks, rxProgress, rxLog, rxEvent,
                 rxCancelled, download>>

\* The data channel of a connection opens.
ConnectionOpen ==
  /\ \E c \in Conns :
       /\ connState[c] = "pending"
       /\ connState' = [connState EXCEPT ![c] = "open"]
  /\ UNCHANGED <<senderVars, wire, foreign, receiverVars, download>>

\* The data channel of a connection closes (the 'close' handler only logs).
ConnectionClose ==
  /\ \E c \in Conns :
       /\ connState[c] = "open"
       /\ connState' = [connState EXCEPT ![c] = "closed"]
  /\ UNCHANGED <<senderVars, wire, foreign, receiverVars, download>>

\* sendFile(file), up to its first await: the readiness check throws, or the
\* call goes on to read the file.
SendFile ==
  /\ pc \in {"idle", "done", "rejected"}
  /\ sends < MaxSends
  /\ \E size \in FileSizes :
       file' = MakeFile(sends + 1, size)
  /\ sends' = sends + 1
  /\ trace' = <<>>
  /\ i' = 0
  /\ IF NotReady(isConnected, dataConnection, connState)
     THEN /\ pc' = "rejected"
          /\ sendError' = "ChannelNotReady"
     ELSE /\ pc' = "reading"
          /\ sendError' = "none"
  /\ UNCHANGED <<connState, peer, isConnected, dataConnection, progressSubject,
                 observer, wire, foreign, receiverVars, download>>

\* await file.arrayBuffer() returns: the metadata is sent, the first status is
\* published, and the loop reaches its first pacing delay (or the call ends, for
\* a file with no chunk).  this.dataConnection is read again: null throws.
FileRead ==
  /\ pc = "reading"
  /\ Emit(UpToThrow(dataConnection, AfterRead(file, dataConnection)))
  /\ IF dataConnection = 0
     THEN /\ pc' = "rejected"
          /\ sendError' = "TypeError"
     ELSE /\ pc' = IF 0 < ChunkCount(file.size) THEN "pacing" ELSE "done"
          /\ UNCHANGED sendError
  /\ UNCHANGED <<connState, peer, isConnected, dataConnection, file, i, sends,
                 foreign, receiverVars, download>>

\* The pacing timer of chunk i fires: the chunk is sent and its status published;
\* after the last chunk the completion message and the completed status follow.
PacingTimer ==
  /\ pc = "pacing"
  /\ Emit(UpToThrow(dataConnection, AfterDelay(file, i, dataConnection)))
  /\ IF dataConnection = 0
     THEN /\ pc' = "rejected"
          /\ sendError' = "TypeError"
          /\ UNCHANGED i
     ELSE /\ i' = i + 1
          /\ pc' = IF i + 1 < ChunkCount(file.size) THEN "pacing" ELSE "done"
          /\ UNCHANGED sendError
  /\ UNCHANGED <<connState, peer, isConnected, dataConnection, file, sends,
                 foreign, receiverVars, download>>

\* cleanup() on the sending instance.  A sendFile call that is waiting goes on
\* afterwards; the log keeps that a cleanup came in between (once).
CleanupSender ==
  /\ connState' = IF dataConnection /= 0 /\ connState[dataConnection] \in {"pending", "open"}
                  THEN [connState EXCEPT ![dataConnection] = "closed"]
                  ELSE connState
  /\ dataConnection' = 0
  /\ peer' = FALSE
  /\ isConnected' = FALSE
  /\ progressSubject' = NULL
  /\ observer' = Notify(observer, <<NULL>>)
  /\ trace' = IF pc \in {"reading", "pacing"}
                 /\ (trace = <<>> \/ trace[Len(trace)] /= CleanupEv)
              THEN Append(trace, CleanupEv) ELSE trace
  /\ UNCHANGED <<pc, file, i, sendError, sends, wire, foreign, receiverVars, download>>

\* this.progress$.subscribe(...) on the sending instance.
Subscribe ==
  /\ ~observer.on
  /\ observer' = [on |-> TRUE, seen |-> OnSubscribe(progressSubject),
                  call |-> sends, mark |-> Len(Publishes(trace))]
  /\ UNCHANGED <<connState, peer, isConnected, dataConnection, progressSubject, pc,
                 file, i, sendError, sends, trace, wire, foreign, receiverVars, download>>

\* cleanup() on the sending instance while a subscriber has been handed fewer
\* than MaxObserved values.
ObservedCleanup ==
  /\ observer.on => Len(observer.seen) < MaxObserved
  /\ CleanupSender

\* ------------------------------------------------ the receiving instance
\* dataConnection.on('data', data => this.handleIncomingData(data))
Receive(data) ==
  LET h == HandleIncomingData(fileMetadata, receivedChunks, data)
  IN /\ fileMetadata' = h.fileMetadata
     /\ receivedChunks' = h.receivedChunks
     /\ rxProgress' = IF h.published = <<>> THEN rxProgress
                      ELSE h.published[Len(h.published)]
     /\ rxEvent' = [kind |-> "data", data |-> data,
                    before |-> [fileMetadata |-> fileMetadata,
                                receivedChunks |-> receivedChunks,
                                rxProgress |-> rxProgress],
                    published |-> h.published, threw |-> h.threw]
     /\ rxCancelled' = (rxCancelled /\ data.type /= "file-metadata")

\* The channel hands over its oldest message.
Deliver ==
  /\ wire /= <<>>
  /\ Receive(Head(wire))
  /\ rxLog' = IF Head(wire).type = "file-metadata" /\ fileMetadata = NoMetadata
              THEN <<Head(wire)>> ELSE Append(rxLog, Head(wire))
  /\ wire' = Tail(wire)
  /\ UNCHANGED <<connState, senderVars, foreign, rxConnection, download>>

\* Data of a peer that does not run sendFile: any message, with any index and
\* any bytes.  The log of deliveries is no longer that of a clean transfer.
ForeignData ==
  {<<>>, Bytes(JunkSrc, 0, 1), Bytes(JunkSrc, 0, 100), Bytes(JunkSrc, 0, CHUNK_SIZE),
   Malformed}
ForeignSizes == {0, 100, CHUNK_SIZE + 1}
ForeignMessages ==
  {ChunkMsg(index, data, last) :
     index \in 0..MaxIndex, data \in ForeignData, last \in {FALSE}}
    \cup {MetadataMsg("foreign", size, FileType) : size \in ForeignSizes}
    \cup {CompleteMsg}
ForeignMark == [type |-> "foreign"]

PeerData ==
  /\ foreign < MaxForeign
  /\ foreign' = foreign + 1
  /\ \E data \in ForeignMessages :
       /\ Receive(data)
       /\ rxLog' = <<ForeignMark>>
  /\ UNCHANGED <<connState, senderVars, wire, rxConnection, download>>

\* The status of the 'error' handlers of the data connection.
\* Faulty variant: the status is the current one with its phase changed.
ErrorStatusOverPrevious(previous, message) ==
  IF previous = NULL
  THEN [Status(0, 0, 0, "", "error") EXCEPT !.error = message]
  ELSE [previous EXCEPT !.status = "error", !.error = message]

ErrorStatus(previous, message) ==
  [Status(0, 0, 0, "", "error") EXCEPT !.error = message]

\* error.message of the transport.
ErrorMessages == {"Connection failed"}

\* dataConnection.on('error', error => ...) on the receiving instance: the
\* handler publishes the error status and does nothing else.
ChannelError ==
  /\ \E message \in ErrorMessages :
       rxProgress' = ErrorStatus(rxProgress, message)
  /\ rxEvent' = [kind |-> "error",
                 before |-> [fileMetadata |-> fileMetadata,
                             receivedChunks |-> receivedChunks,
                             rxProgress |-> rxProgress]]
  /\ rxCancelled' = FALSE
  /\ UNCHANGED <<connState, senderVars, wire, foreign, rxConnection, fileMetadata,
                 receivedChunks, rxLog, download>>

\* Faulty variant: cleanup() leaves the receive fields as they are.
CleanupFieldsKept(meta, chunks) ==
  [fileMetadata |-> meta, receivedChunks |-> chunks]

\* this.receivedChunks = []; this.fileMetadata = null
CleanupFields(meta, chunks) ==
  [fileMetadata |-> NoMetadata, receivedChunks |-> <<>>]

\* Some slots of the array are filled and some are not.
PartlyReceived(meta, chunks) ==
  /\ meta /= NoMetadata
  /\ \E k \in 1..Len(chunks) : chunks[k].defined
  /\ \E k \in 1..Len(chunks) : ~chunks[k].defined

\* cleanup() on the receiving instance.
ReceiverCleanup ==
  /\ connState' = IF rxConnection /= 0 /\ connState[rxConnection] \in {"pending", "open"}
                  THEN [connState EXCEPT ![rxConnection] = "closed"]
                  ELSE connState
  /\ rxConnection' = 0
  /\ receivedChunks' = CleanupFields(fileMetadata, receivedChunks).receivedChunks
  /\ fileMetadata' = CleanupFields(fileMetadata, receivedChunks).fileMetadata
  /\ rxProgress' = NULL
  /\ rxLog' = <<>>
  /\ rxCancelled' = (rxCancelled \/ PartlyReceived(fileMetadata, receivedChunks))
  /\ rxEvent' = [kind |-> "cleanup",
                 before |-> [fileMetadata |-> fileMetadata,
                             receivedChunks |-> receivedChunks,
                             rxProgress |-> rxProgress]]
  /\ UNCHANGED <<senderVars, wire, foreign>>

\* cleanup() on the receiving instance, called with no Download component.
CleanupReceiver ==
  /\ ReceiverCleanup
  /\ UNCHANGED download

\* ------------------------------------------------- the Download component
\* this.downloadedFile || this.progress()?.file
FileOf(d) ==
  IF d.downloadedFile /= NoPayload THEN d.downloadedFile
  ELSE IF d.progress /= NULL THEN d.progress.file
  ELSE NoPayload

\* The callback of this.webRTCService.progress$.subscribe(...) in ngOnInit:
\* null is skipped; a completed status with a file is kept in downloadedFile
\* and, the first time, sets the 100 ms and the 600 ms timer.
OnProgress(d, progress) ==
  IF progress = NULL THEN d
  ELSE LET d1 == [d EXCEPT !.progress = progress, !.isConnecting = FALSE]
       IN IF progress.status = "error"
          THEN [d1 EXCEPT !.error = IF progress.error \in {NoError, ""}
                                    THEN "Download failed" ELSE progress.error]
          ELSE IF progress.status = "transferring"
          THEN [d1 EXCEPT !.error = ""]
          ELSE IF progress.status = "completed" /\ progress.file /= NoPayload
          THEN LET d2 == [d1 EXCEPT !.downloadedFile = progress.file]
               IN IF ~d2.downloadTriggered
                  THEN [d2 EXCEPT !.downloadTriggered = TRUE,
                                  !.timers.auto = @ + 1,
                                  !.timers.click = @ + 1]
                  ELSE d2
          ELSE d1

\* The try block of attemptAutoDownload and of triggerDownload around
\* this.webRTCService.downloadFile(file), with what the call does: it
\* returns (ok), or it throws and the catch takes downloadStarted back.
TryDownloadFile(d, f, ok) ==
  IF d.downloadStarted THEN d
  ELSE IF ok
  THEN [d EXCEPT !.downloadStarted = TRUE, !.downloads = @ + 1, !.saved = f]
  ELSE [d EXCEPT !.downloadStarted = FALSE, !.thrown = TRUE]

\* Faulty variant: attemptAutoDownload without its downloadStarted checks.
AttemptAutoDownloadUnguarded(d, ok) ==
  IF ~d.browser THEN d
  ELSE IF d.downloadTriggered /\ d.autoDownloadAttempted THEN d
  ELSE IF FileOf(d) = NoPayload THEN d
  ELSE TryDownloadFile([d EXCEPT !.autoDownloadAttempted = TRUE,
                                 !.downloadStarted = FALSE],
                       FileOf(d), ok)

\* attemptAutoDownload()
AttemptAutoDownload(d, ok) ==
  IF ~d.browser THEN d
  ELSE IF d.downloadStarted THEN [d EXCEPT !.ignored = TRUE]
  ELSE IF d.downloadTriggered /\ d.autoDownloadAttempted THEN d
  ELSE IF FileOf(d) = NoPayload THEN d
  ELSE TryDownloadFile([d EXCEPT !.autoDownloadAttempted = TRUE], FileOf(d), ok)

\* triggerDownload(file)
TriggerDownload(d, f, ok) ==
  IF ~d.browser THEN d ELSE TryDownloadFile(d, f, ok)

\* downloadFile() of the component, the handler of the download button.
DownloadFile(d, ok) ==
  IF d.downloadStarted THEN [d EXCEPT !.ignored = TRUE]
  ELSE IF FileOf(d) /= NoPayload THEN TriggerDownload(d, FileOf(d), ok)
  ELSE [d EXCEPT !.error =
          "No file available to download. Please refresh and try again."]

\* autoClickDownloadButton(): with the button in the view, a click event is
\* dispatched to it, which runs its handler at once.
AutoClickDownloadButton(d, present, ok) ==
  IF d.downloadStarted THEN [d EXCEPT !.ignored = TRUE]
  ELSE IF present THEN DownloadFile(d, ok)
  ELSE d

\* What a call of WebRTCService.downloadFile may do: return or throw.  The
\* returns counted are capped.
Outcomes(d) == {ok \in BOOLEAN : ok => d.downloads < MaxDownloads}

\* The statuses the service publishes: null, transferring, completed with the
\* received file, completed without a file (sendFile), error.
CompletedFile == NewFile(Bytes(1, 0, CHUNK_SIZE), "file", FileType)
ProgressValues ==
  {NULL,
   Status(0, CHUNK_SIZE, 0, "file", "transferring"),
   [Status(CHUNK_SIZE, CHUNK_SIZE, 100, "file", "completed")
      EXCEPT !.file = CompletedFile],
   Status(CHUNK_SIZE, CHUNK_SIZE, 100, "file", "completed"),
   ErrorStatus(NULL, "Connection failed"),
   ErrorStatus(NULL, "")}

\* ngOnInit(): on the server nothing; in the browser the route gives the room
\* id (connectToSender starts) or none, then progress$ is subscribed and
\* hands over the current value at once.
NgOnInit ==
  /\ download.stage = "constructed"
  /\ \E id \in {"", "room"} :
       LET d0 == [download EXCEPT !.stage = "initialised"]
           d1 == IF id /= ""
                 THEN [d0 EXCEPT !.roomId = id, !.isConnecting = TRUE,
                                 !.error = "", !.connect = "pending"]
                 ELSE [d0 EXCEPT !.error = "Invalid room ID",
                                 !.isConnecting = FALSE]
           d2 == [d1 EXCEPT !.progressSub = TRUE]
           replay == OnSubscribe(rxProgress)
       IN download' = IF ~download.browser THEN d0
                      ELSE IF replay = <<>> THEN d2
                      ELSE OnProgress(d2, replay[1])
  /\ UNCHANGED <<connState, senderVars, wire, foreign, receiverVars>>

\* connectToSender after await initializeAsReceiver(senderId): the progress
\* becomes a 'connecting' status, or the catch sets the error.
ConnectSettled ==
  /\ download.connect = "pending"
  /\ \E message \in ErrorMessages \cup {"", "none"} :
       download' =
         IF message = "none"
         THEN [download EXCEPT !.connect = "resolved",
                 !.progress = Status(0, 0, 0, "", "connecting")]
         ELSE [download EXCEPT !.connect = "rejected",
                 !.isConnecting = FALSE,
                 !.error = IF message = "" THEN "Failed to connect to sender"
                           ELSE message]
  /\ UNCHANGED <<connState, senderVars, wire, foreign, receiverVars>>

\* this.progressSubject.next(value) on the receiving instance, handed to the
\* component while it is subscribed.
Published ==
  /\ \E value \in ProgressValues :
       /\ rxProgress' = value
       /\ download' = IF download.progressSub THEN OnProgress(download, value)
                      ELSE download
  /\ UNCHANGED <<connState, senderVars, wire, foreign, rxConnection, fileMetadata,
                 receivedChunks, rxLog, rxEvent, rxCancelled>>

\* ngAfterViewInit(): a 500 ms timer when a completed file is there and no
\* download was triggered.
NgAfterViewInit ==
  /\ download.stage = "initialised"
  /\ download' =
       [download EXCEPT
          !.stage = "viewInit",
          !.timers.view =
             IF /\ download.progress /= NULL
                /\ download.progress.status = "completed"
                /\ download.progress.file /= NoPayload
                /\ ~download.downloadTriggered
             THEN @ + 1 ELSE @]
  /\ UNCHANGED <<connState, senderVars, wire, foreign, receiverVars>>

\* A timer whose callback is attemptAutoDownload fires: the 100 ms one of the
\* subscription or the 500 ms one of ngAfterViewInit.
AutoDownloadTimer ==
  /\ \E kind \in {"auto", "view"} :
       /\ download.timers[kind] > 0
       /\ \E ok \in Outcomes(download) :
            download' =
              AttemptAutoDownload([download EXCEPT !.timers[kind] = @ - 1], ok)
  /\ UNCHANGED <<connState, senderVars, wire, foreign, receiverVars>>

\* The 600 ms timer fires, after the 100 ms timer set with it.  The button is
\* in the view or not.
AutoClickTimer ==
  /\ download.timers.click > download.timers.auto
  /\ \E present \in {p \in BOOLEAN : p => download.stage = "viewInit"} :
       \E ok \in Outcomes(download) :
         download' =
           AutoClickDownloadButton([download EXCEPT !.timers.click = @ - 1],
                                   present, ok)
  /\ UNCHANGED <<connState, senderVars, wire, foreign, receiverVars>>

\* The user clicks the download button.
ManualClick ==
  /\ download.browser
  /\ download.stage = "viewInit"
  /\ \E ok \in Outcomes(download) : download' = DownloadFile(download, ok)
  /\ UNCHANGED <<connState, senderVars, wire, foreign, receiverVars>>

\* ngOnDestroy(): the subscriptions end and the service is cleaned up.  Timers
\* that were set stay set.
NgOnDestroy ==
  /\ download.stage \in {"initialised", "viewInit"}
  /\ download' = [download EXCEPT !.stage = "destroyed", !.progressSub = FALSE]
  /\ ReceiverCleanup

\* ----------------------------------------------------------- specifications
\* The sending instance alone: what sendFile does never depends on the receiver.
SenderNext ==
  \/ InitializeAsSender
  \/ PeerConnection
  \/ ConnectionOpen
  \/ ConnectionClose
  \/ SendFile
  \/ FileRead
  \/ PacingTimer
  \/ CleanupSender

SenderSpec == Init /\ [][SenderNext]_vars

\* The sending instance and a subscriber of its progress$.
ProgressNext ==
  \/ InitializeAsSender
  \/ PeerConnection
  \/ ConnectionOpen
  \/ SendFile
  \/ FileRead
  \/ PacingTimer
  \/ ObservedCleanup
  \/ Subscribe

ProgressSpec == Init /\ [][ProgressNext]_vars

\* The receiving instance alone, under every sequence of messages.
ReceiverNext ==
  \/ PeerData
  \/ CleanupReceiver
  \/ ChannelError

ReceiverSpec == Init /\ [][ReceiverNext]_vars

\* A transfer end to end: no cleanup, no connection closes, and the channel hands
\* over what sendFile sent on it, in order, once.
TransferNext ==
  \/ InitializeAsSender
  \/ InitializeAsReceiver
  \/ PeerConnection
  \/ ConnectionOpen
  \/ SendFile
  \/ FileRead
  \/ PacingTimer
  \/ Deliver

TransferSpec == Init /\ [][TransferNext]_vars

\* The channel's part of Deliver: its oldest message leaves it.  Deliver is the
\* only step that takes a message off the channel, and it can always take one
\* that is there, so fairness of this part is fairness of Deliver.
Dequeue ==
  /\ wire /= <<>>
  /\ wire' = Tail(wire)

\* The same, when the file read returns, the pacing timer fires and the channel
\* goes on delivering.
LiveTransferSpec ==
  /\ TransferSpec
  /\ WF_vars(FileRead)
  /\ WF_vars(PacingTimer)
  /\ WF_wire(Dequeue)

\* The Download component from its construction to after its destruction,
\* with the statuses of the receiving instance as they come.
DownloadNext ==
  \/ NgOnInit
  \/ ConnectSettled
  \/ Published
  \/ NgAfterViewInit
  \/ AutoDownloadTimer
  \/ AutoClickTimer
  \/ ManualClick
  \/ NgOnDestroy

DownloadSpec == DownloadInit /\ [][DownloadNext]_vars

\* ================================================================== claims
\* What the current sendFile call has sent so far, by kind.
Sent == MsgsOf(trace)
IsMetadata(m) == m.type = "file-metadata"
IsChunk(m) == m.type = "file-chunk"
IsComplete(m) == m.type = "file-complete"
SentChunks == SelectSeq(Sent, IsChunk)
Count(seq, Test(_)) == Len(SelectSeq(seq, Test))

\* What the call did, without the cleanups that came in between.
IsAct(e) == e.ev /= "cleanup"
Acts == SelectSeq(trace, IsAct)

\* The call passed its readiness check and is past its file read.
PastRead == pc \in {"pacing", "done"} \/ sendError = "TypeError"

\* C3 (as stated): every sendFile call that passed the readiness check, once
\* past its file read, has emitted exactly one metadata message.
C3_ExactlyOneMetadata == PastRead => Count(Sent, IsMetadata) = 1

\* C3 (amended): a sendFile call emits at most one metadata message, nothing is
\* sent or published before it, and exactly one has been emitted whenever the
\* file read returned with the connection still set (the call is in a pacing
\* delay or done); a call that threw emitted the metadata first or nothing.
C3_MetadataFirstAtMostOnce ==
  /\ Count(Sent, IsMetadata) <= 1
  /\ Acts /= <<>>
       => /\ IsSend(Acts[1])
          /\ Acts[1].msg = MetadataMsg(file.name, file.size, file.type)
  /\ pc \in {"pacing", "done"} => Count(Sent, IsMetadata) = 1
  /\ pc \in {"idle", "reading"} => Sent = <<>>

\* A call that ran to its end after sending the metadata and at least two chunks.
C3_Witness ==
  /\ pc = "done"
  /\ Count(Sent, IsMetadata) = 1
  /\ Len(SentChunks) >= 2

\* C4: the chunk messages of a sendFile call carry the indexes 0, 1, 2, ... in
\* that order, without gap or repeat, up to chunkCount - 1 (all of them once the
\* call is done), and isLast is set on the chunk of index chunkCount - 1 alone.
C4_ChunkIndexesInOrder ==
  /\ \A k \in 1..Len(SentChunks) :
       /\ SentChunks[k].chunkIndex = k - 1
       /\ SentChunks[k].isLast = (k * CHUNK_SIZE >= file.size)
  /\ \A k \in 1..Len(SentChunks) : (k - 1) * CHUNK_SIZE < file.size
  /\ pc = "done" => Len(SentChunks) * CHUNK_SIZE >= file.size

\* A finished call with three chunks.
C4_Witness ==
  /\ pc = "done"
  /\ Len(SentChunks) = 3
  /\ SentChunks[3].isLast

\* C5: chunk i carries the bytes [i*CHUNK_SIZE, min((i+1)*CHUNK_SIZE, totalBytes))
\* of the file, so its length is between 1 and CHUNK_SIZE (below MAX_CHUNK_SIZE),
\* only the last chunk is shorter than CHUNK_SIZE, and a finished call has sent
\* ceil(totalBytes / CHUNK_SIZE) chunks whose lengths sum to totalBytes.
SumLengths(chunks) ==
  LET Sum[k \in 0..Len(chunks)] ==
        IF k = 0 THEN 0 ELSE Sum[k - 1] + ByteLength(chunks[k].data)
  IN Sum[Len(chunks)]

C5_ChunkBytes ==
  /\ CHUNK_SIZE < MAX_CHUNK_SIZE
  /\ \A k \in 1..Len(SentChunks) :
       LET lo == (k - 1) * CHUNK_SIZE
           hi == IF k * CHUNK_SIZE < file.size THEN k * CHUNK_SIZE ELSE file.size
       IN /\ SentChunks[k].data = <<Run(file.id, lo, hi)>>
          /\ ByteLength(SentChunks[k].data) \in 1..CHUNK_SIZE
          /\ ByteLength(SentChunks[k].data) < CHUNK_SIZE => SentChunks[k].isLast
  /\ pc = "done" =>
       /\ SumLengths(SentChunks) = file.size
       /\ (Len(SentChunks) - 1) * CHUNK_SIZE < file.size \/ file.size = 0
       /\ Len(SentChunks) * CHUNK_SIZE >= file.size

\* A finished call whose last chunk is a single byte after two full chunks.
C5_Witness ==
  /\ pc = "done"
  /\ file.size = 2 * CHUNK_SIZE + 1
  /\ Len(SentChunks) = 3
  /\ ByteLength(SentChunks[3].data) = 1

\* C6: a sendFile call that runs to its end has emitted exactly one completion
\* marker, as its last message, after the metadata and all its chunks; a call
\* that has not reached its end has emitted none.
C6_CompletionLast ==
  /\ pc = "done" =>
       /\ Count(Sent, IsComplete) = 1
       /\ Sent[Len(Sent)] = CompleteMsg
       /\ Len(Sent) = 2 + Len(SentChunks)
       /\ IsMetadata(Sent[1])
       /\ Len(SentChunks) * CHUNK_SIZE >= file.size
  /\ pc /= "done" => Count(Sent, IsComplete) = 0

\* A finished call with chunks, and one without (the empty file), both end with
\* the marker; the witness is the one with chunks.
C6_Witness ==
  /\ pc = "done"
  /\ Len(SentChunks) >= 1
  /\ Sent[Len(Sent)] = CompleteMsg

\* C7: a sendFile call made while the instance is not connected, holds no data
\* connection, or holds one that is not open, throws the channel-not-ready
\* error at once: it sends nothing and publishes nothing.
C7_NotReadyFailsAtOnce ==
  [][(sends' = sends + 1
      /\ (~isConnected \/ dataConnection = 0
            \/ connState[dataConnection] \in {"pending", "closed"}))
     => /\ pc' = "rejected"
        /\ sendError' = "ChannelNotReady"
        /\ trace' = <<>>
        /\ wire' = wire
        /\ progressSubject' = progressSubject]_vars

\* The call was refused although the instance is connected and holds a data
\* connection: that connection is not open.
C7_Witness ==
  /\ pc = "rejected"
  /\ sendError = "ChannelNotReady"
  /\ isConnected
  /\ dataConnection /= 0
  /\ connState[dataConnection] /= "open"

\* ------------------------------------------------- the receiving instance
\* The last handler call was handleIncomingData on a message of this kind,
\* made while the instance held metadata (Receiving).
HandledWhileReceiving(kind) ==
  /\ rxEvent.kind = "data"
  /\ rxEvent.data.type = kind
  /\ rxEvent.before.fileMetadata /= NoMetadata

\* The one status a handler call published is an error status.
PublishedError ==
  /\ Len(rxEvent.published) = 1
  /\ rxEvent.published[1].status = "error"
  /\ rxEvent.published[1].error /= NoError

\* C8: a chunk message whose index is not below the number of allocated slots,
\* handled while Receiving, is answered by an error status, and leaves the
\* received array and the bytes counted as they were.
C8_OutOfRangeRejected ==
  (/\ HandledWhileReceiving("file-chunk")
   /\ rxEvent.data.data /= Malformed
   /\ rxEvent.data.chunkIndex >= Len(rxEvent.before.receivedChunks))
  => /\ PublishedError
     /\ receivedChunks = rxEvent.before.receivedChunks

\* C9: a completion marker handled while a slot is still empty is answered by
\* an error status that carries the expected and the actual byte counts, and
\* not by a completed status.
HasHole(array) == \E k \in 1..Len(array) : ~array[k].defined

C9_IncompleteReported ==
  (/\ HandledWhileReceiving("file-complete")
   /\ HasHole(rxEvent.before.receivedChunks))
  => /\ PublishedError
     /\ \A k \in 1..Len(rxEvent.published) : rxEvent.published[k].status /= "completed"

\* C10: a chunk message handled while Receiving, whose slot already holds the
\* very bytes it carries, leaves the received array and what a reconstruction
\* yields as they were, and the status it publishes counts the bytes of that
\* index once: bytesTransferred is what was counted before the repeat.
IsRepeat ==
  /\ HandledWhileReceiving("file-chunk")
  /\ rxEvent.data.data /= Malformed
  /\ rxEvent.data.chunkIndex < Len(rxEvent.before.receivedChunks)
  /\ rxEvent.before.receivedChunks[rxEvent.data.chunkIndex + 1] = Slot(rxEvent.data.data)

C10_DuplicateTolerated ==
  IsRepeat =>
    /\ receivedChunks = rxEvent.before.receivedChunks
    /\ ReconstructLoop(receivedChunks, 1, Zeros(fileMetadata.fileSize), 0)
         = ReconstructLoop(rxEvent.before.receivedChunks, 1,
                           Zeros(fileMetadata.fileSize), 0)
    /\ Len(rxEvent.published) = 1
    /\ rxEvent.published[1].bytesTransferred
         = BytesReceived(rxEvent.before.receivedChunks)
    /\ rxEvent.before.rxProgress.status = "transferring"
         => rxEvent.published[1].bytesTransferred
              = rxEvent.before.rxProgress.bytesTransferred

\* The repeated chunk carries bytes, and another slot is filled as well.
C10_Witness ==
  /\ IsRepeat
  /\ ByteLength(rxEvent.data.data) > 0
  /\ \E k \in 1..Len(receivedChunks) :
       k /= rxEvent.data.chunkIndex + 1 /\ receivedChunks[k].defined

\* ------------------------------------------------------------ end to end
\* The last handler call was handleIncomingData on the completion marker and
\* it published a completed status whose file holds exactly the bytes of f.
ReceivedWhole(f) ==
  /\ rxEvent.kind = "data"
  /\ rxEvent.data = CompleteMsg
  /\ ~rxEvent.threw
  /\ Len(rxEvent.published) = 1
  /\ rxEvent.published[1].status = "completed"
  /\ rxEvent.published[1].file /= NoPayload
  /\ rxEvent.published[1].file.content = Bytes(f.id, 0, f.size)
  /\ rxEvent.published[1].file.size = f.size
  /\ rxProgress = rxEvent.published[1]

\* The channel has handed to a receiving instance that was Idle exactly the
\* messages of the finished sendFile call, in order, each once.
DeliveredAll ==
  /\ pc = "done"
  /\ rxLog = Sent
  /\ rxEvent.kind = "data"
  /\ rxEvent.data = CompleteMsg

\* C1: when the messages that sendFile emitted for a file have been delivered in
\* order, each once, to a receiving instance that was Idle, the file attached to
\* the completed status holds the bytes of the file sent, all of them and in
\* their order, for every file size.
C1_RoundTrip == DeliveredAll => ReceivedWhole(file)

\* A file of two full chunks and one more byte went through.
C1_Witness ==
  /\ DeliveredAll
  /\ file.size = 2 * CHUNK_SIZE + 1
  /\ ReceivedWhole(file)

\* C2: once a sendFile call is reading its file, the sending instance holding
\* the open connection of the receiving instance, the sending instance comes to
\* publish the completed status, and the receiving instance comes to publish a
\* completed status with the whole file and to be Idle again - unless another
\* peer's connection takes the place of the receiver's on the sending instance,
\* so that the channel is not given every message.
Diverted == dataConnection /= rxConnection
OnOpenChannel == ~Diverted /\ dataConnection /= 0 /\ connState[dataConnection] = "open"

SenderCompleted(f) ==
  /\ pc = "done"
  /\ file = f
  /\ progressSubject = Status(f.size, f.size, 100, f.name, "completed")

ReceiverCompleted(f) ==
  /\ ReceivedWhole(f)
  /\ fileMetadata = NoMetadata
  /\ receivedChunks = <<>>

C2_TransferCompletes ==
  \A id \in 1..MaxSends :
    /\ (pc = "reading" /\ file.id = id)
         ~> (file.id = id /\ SenderCompleted(file))
    /\ (pc = "reading" /\ file.id = id /\ OnOpenChannel)
         ~> \/ Diverted
            \/ \E size \in FileSizes :
                 /\ ReceiverCompleted(MakeFile(id, size))
                 /\ file.id = id => file.size = size

\* Both ends have completed the same transfer of a file with several chunks.
C2_Witness ==
  /\ SenderCompleted(file)
  /\ ReceiverCompleted(file)
  /\ file.size > CHUNK_SIZE
  /\ ~Diverted

\* ------------------------------------------------- chunks on a filled slot
\* The last handler call was handleIncomingData on a chunk whose slot, within
\* the allocated range, already held bytes.
OnFilledSlot ==
  /\ HandledWhileReceiving("file-chunk")
  /\ rxEvent.data.data /= Malformed
  /\ rxEvent.data.chunkIndex < Len(rxEvent.before.receivedChunks)
  /\ rxEvent.before.receivedChunks[rxEvent.data.chunkIndex + 1].defined

\* C11: a chunk message for a slot that is already filled, whatever bytes it
\* carries, leaves the slot's contents and the byte count as they were.
C11_FilledSlotKept ==
  OnFilledSlot =>
    /\ receivedChunks = rxEvent.before.receivedChunks
    /\ BytesReceived(receivedChunks) = BytesReceived(rxEvent.before.receivedChunks)

\* ------------------------------------------------------------ progress
\* The statuses of a sequence that are Transferring ones.
IsTransferring(st) == st.status = "transferring"
SenderTransferring == SelectSeq([k \in 1..Len(Publishes(trace)) |-> Publishes(trace)[k].status],
                                IsTransferring)

\* The sender's half of C12: the Transferring statuses of a sendFile call have
\* non-decreasing bytesTransferred.
SenderProgressMonotone ==
  \A k \in 1..(Len(SenderTransferring) - 1) :
    SenderTransferring[k].bytesTransferred <= SenderTransferring[k + 1].bytesTransferred

\* C12: within one transfer the bytesTransferred of successive Transferring
\* statuses never decreases: on the sender over the statuses of a sendFile
\* call, and on the receiver a chunk message handled while Receiving publishes
\* no less than the Transferring status that was current before it.
C12_ProgressMonotone ==
  /\ SenderProgressMonotone
  /\ (/\ HandledWhileReceiving("file-chunk")
      /\ rxEvent.before.rxProgress.status = "transferring"
      /\ rxEvent.published /= <<>>)
     => rxEvent.published[1].bytesTransferred
          >= rxEvent.before.rxProgress.bytesTransferred

\* p is 100 * b / t rounded to the nearest integer, for t > 0.
IsRounded(p, b, t) == 2 * t * p - t <= 200 * b /\ 200 * b < 2 * t * p + t

PercentageOk(st) ==
  /\ st.totalBytes > 0 => IsRounded(st.percentage, st.bytesTransferred, st.totalBytes)
  /\ st.percentage \in 0..100

\* Every status the current sendFile call published, and every status the last
\* handler call of the receiving instance published.
SenderStatuses == [k \in 1..Len(Publishes(trace)) |-> Publishes(trace)[k].status]
ReceiverStatuses == IF rxEvent.kind = "data" THEN rxEvent.published ELSE <<>>

\* C13: every published status with totalBytes > 0 has percentage =
\* round(100 * bytesTransferred / totalBytes), and every published status has
\* a percentage that is an integer in 0..100.
C13_PercentageRounded ==
  /\ \A k \in 1..Len(SenderStatuses) : PercentageOk(SenderStatuses[k])
  /\ \A k \in 1..Len(ReceiverStatuses) : PercentageOk(ReceiverStatuses[k])

\* C14: every status published by the sender or the receiver has
\* bytesTransferred <= totalBytes.
C14_BytesWithinTotal ==
  /\ \A k \in 1..Len(SenderStatuses) :
       SenderStatuses[k].bytesTransferred <= SenderStatuses[k].totalBytes
  /\ \A k \in 1..Len(ReceiverStatuses) :
       ReceiverStatuses[k].bytesTransferred <= ReceiverStatuses[k].totalBytes

\* ------------------------------------------------------ cleanup mid-transfer
\* C15: once cleanup() was called while some but not all chunks were stored,
\* and until a new metadata message arrives, the published status is null, the
\* receive buffer and the metadata are gone and the channel is released, and a
\* chunk or completion message that arrives publishes nothing and stores
\* nothing.
C15_CleanupMidTransfer ==
  rxCancelled =>
    /\ rxProgress = NULL
    /\ fileMetadata = NoMetadata
    /\ receivedChunks = <<>>
    /\ rxConnection = 0
    /\ rxEvent.kind = "data" =>
         /\ rxEvent.data.type \in {"file-chunk", "file-complete"}
         /\ rxEvent.published = <<>>
         /\ ~rxEvent.threw
         /\ rxEvent.before.fileMetadata = NoMetadata
         /\ rxEvent.before.receivedChunks = <<>>

\* A chunk with bytes arrived after such a cleanup.
C15_Witness ==
  /\ rxCancelled
  /\ rxEvent.kind = "data"
  /\ rxEvent.data.type = "file-chunk"
  /\ rxEvent.data.data /= Malformed
  /\ ByteLength(rxEvent.data.data) > 0

\* C15, second witness case: the completion marker arrived after such a cleanup.
C15_WitnessComplete ==
  /\ rxCancelled
  /\ rxEvent.kind = "data"
  /\ rxEvent.data = CompleteMsg

\* ------------------------------------------------- cleanup during sendFile
\* cleanup() ran while the current sendFile call was in a pacing delay: the
\* log holds a cleanup after the call's first status.
CleanupInPacing ==
  \E k \in 2..Len(trace) : trace[k] = CleanupEv

\* C16: when cleanup() ran during a pacing delay of sendFile, the call emits
\* no further chunk or completion message and throws nothing: it ends without
\* an error.
C16_StopsCleanly ==
  /\ CleanupInPacing => sendError = "none"
  /\ \A k \in 2..Len(trace) :
       trace[k] = CleanupEv => \A n \in (k + 1)..Len(trace) : ~IsSend(trace[n])

\* ------------------------------------------------- completion, all filled
\* The slots of an array, in index order, laid end to end.
RECURSIVE ConcatSlots(_)
ConcatSlots(array) ==
  IF array = <<>> THEN <<>>
  ELSE Concat(Head(array).bytes, ConcatSlots(Tail(array)))

\* The last handler call was handleIncomingData on the completion marker, made
\* while Receiving with every slot filled.
CompleteAllFilled ==
  /\ HandledWhileReceiving("file-complete")
  /\ \A k \in 1..Len(rxEvent.before.receivedChunks) :
       rxEvent.before.receivedChunks[k].defined

\* C17: on a completion marker received while Receiving with all slots filled,
\* the receiver publishes a Completed status whose payload is the slots laid
\* end to end in index order, of exactly fileSize bytes, with bytesTransferred
\* = totalBytes = fileSize, then holds no buffer and no metadata (Idle).
C17_CompleteAllFilled ==
  CompleteAllFilled =>
    LET meta == rxEvent.before.fileMetadata
    IN /\ ~rxEvent.threw
       /\ Len(rxEvent.published) = 1
       /\ rxEvent.published[1].status = "completed"
       /\ rxEvent.published[1].bytesTransferred = meta.fileSize
       /\ rxEvent.published[1].totalBytes = meta.fileSize
       /\ rxEvent.published[1].file /= NoPayload
       /\ rxEvent.published[1].file.content = ConcatSlots(rxEvent.before.receivedChunks)
       /\ rxEvent.published[1].file.size = meta.fileSize
       /\ rxProgress = rxEvent.published[1]
       /\ fileMetadata = NoMetadata
       /\ receivedChunks = <<>>

\* ----------------------------------------------------------- noise when Idle
\* The last handler call was handleIncomingData on a chunk or a completion
\* marker, made while the instance held no metadata (Idle).
NoiseWhileIdle ==
  /\ rxEvent.kind = "data"
  /\ rxEvent.data.type \in {"file-chunk", "file-complete"}
  /\ rxEvent.before.fileMetadata = NoMetadata

\* C18: a chunk message or a completion marker received while Idle publishes
\* no status and leaves the metadata, the received array and the current
\* status as they were.
C18_IdleIgnoresNoise ==
  NoiseWhileIdle =>
    /\ rxEvent.published = <<>>
    /\ ~rxEvent.threw
    /\ fileMetadata = NoMetadata
    /\ receivedChunks = rxEvent.before.receivedChunks
    /\ rxProgress = rxEvent.before.rxProgress

\* A chunk with bytes arrived while Idle, after a transfer had completed.
C18_Witness ==
  /\ NoiseWhileIdle
  /\ rxEvent.data.type = "file-chunk"
  /\ rxEvent.data.data /= Malformed
  /\ ByteLength(rxEvent.data.data) > 0
  /\ rxProgress /= NULL
  /\ rxProgress.status = "completed"

\* ------------------------------------------------------- metadata when Idle
\* The last handler call was handleIncomingData on a metadata message, made
\* while the instance held no metadata (Idle).
MetadataWhileIdle ==
  /\ rxEvent.kind = "data"
  /\ rxEvent.data.type = "file-metadata"
  /\ rxEvent.before.fileMetadata = NoMetadata

\* C19: on a metadata message received while Idle the receiver holds
\* ceil(fileSize / CHUNK_SIZE) slots, all empty, has recorded the metadata, has
\* published one Transferring status with bytesTransferred = 0 and totalBytes =
\* fileSize, and is Receiving.
C19_MetadataAllocates ==
  MetadataWhileIdle =>
    LET size == rxEvent.data.fileSize
    IN /\ Len(receivedChunks) * CHUNK_SIZE >= size
       /\ (Len(receivedChunks) - 1) * CHUNK_SIZE < size \/ Len(receivedChunks) = 0
       /\ \A k \in 1..Len(receivedChunks) : ~receivedChunks[k].defined
       /\ fileMetadata /= NoMetadata
       /\ fileMetadata.fileName = rxEvent.data.fileName
       /\ fileMetadata.fileSize = size
       /\ fileMetadata.fileType = rxEvent.data.fileType
       /\ Len(rxEvent.published) = 1
       /\ rxEvent.published[1].status = "transferring"
       /\ rxEvent.published[1].bytesTransferred = 0
       /\ rxEvent.published[1].totalBytes = size
       /\ rxEvent.published[1].fileName = rxEvent.data.fileName
       /\ rxProgress = rxEvent.published[1]

\* Metadata of a file of CHUNK_SIZE + 1 bytes: two slots.
C19_Witness ==
  /\ MetadataWhileIdle
  /\ rxEvent.data.fileSize = CHUNK_SIZE + 1
  /\ Len(receivedChunks) = 2

\* ------------------------------------------------------------- empty file
\* The current sendFile call has run to its end on a file of no bytes.
EmptyFileSent == pc = "done" /\ file.size = 0

\* C20: for a file of 0 bytes sendFile emits the metadata message, no chunk
\* message, and the completion marker; the receiver allocates no slot on the
\* metadata and, on the completion marker, publishes in that same call a
\* Completed status whose file is empty, and is Idle again.
C20_EmptyFile ==
  /\ EmptyFileSent =>
       Sent = <<MetadataMsg(file.name, 0, file.type), CompleteMsg>>
  /\ (EmptyFileSent /\ rxLog = <<MetadataMsg(file.name, 0, file.type)>>) =>
       /\ receivedChunks = <<>>
       /\ fileMetadata /= NoMetadata
       /\ fileMetadata.fileSize = 0
  /\ (EmptyFileSent /\ DeliveredAll) =>
       /\ ReceivedWhole(file)
       /\ rxEvent.before.receivedChunks = <<>>
       /\ rxEvent.published[1].file.content = <<>>
       /\ rxEvent.published[1].file.size = 0
       /\ rxEvent.published[1].bytesTransferred = 0
       /\ rxProgress = rxEvent.published[1]
       /\ fileMetadata = NoMetadata
       /\ receivedChunks = <<>>

\* An empty file went through: sent, delivered and completed on the receiver.
C20_Witness ==
  /\ EmptyFileSent
  /\ DeliveredAll
  /\ rxProgress /= NULL
  /\ rxProgress.status = "completed"
  /\ rxProgress.file /= NoPayload
  /\ rxProgress.file.size = 0

\* --------------------------------------------------------- exact multiple
\* The current sendFile call has run to its end on a file of k * CHUNK_SIZE
\* bytes, k >= 1.
ExactMultipleSent ==
  /\ pc = "done"
  /\ file.size > 0
  /\ file.size % CHUNK_SIZE = 0

\* C21: for a file of k * CHUNK_SIZE bytes, k >= 1, sendFile emits exactly k
\* chunk messages, each of CHUNK_SIZE bytes, and ends on a Completed status;
\* once its messages are delivered the receiver's status is Completed and the
\* reconstructed file has k * CHUNK_SIZE bytes, those of the file sent.
C21_ExactMultiple ==
  /\ ExactMultipleSent =>
       /\ Len(SentChunks) * CHUNK_SIZE = file.size
       /\ \A k \in 1..Len(SentChunks) : ByteLength(SentChunks[k].data) = CHUNK_SIZE
       /\ progressSubject = Status(file.size, file.size, 100, file.name, "completed")
  /\ (ExactMultipleSent /\ DeliveredAll) =>
       /\ ReceivedWhole(file)
       /\ rxProgress = rxEvent.published[1]
       /\ rxProgress.file.size = file.size

\* A file of two full chunks (32768 bytes) went through.
C21_Witness ==
  /\ ExactMultipleSent
  /\ DeliveredAll
  /\ file.size = 2 * CHUNK_SIZE
  /\ Len(SentChunks) = 2
  /\ rxProgress /= NULL
  /\ rxProgress.status = "completed"

\* ------------------------------------------------- status after each chunk
\* C22: in what a sendFile call does, every chunk message is followed at once,
\* before any other message, by a Transferring status whose bytesTransferred
\* is the end offset of that chunk, min((i+1) * CHUNK_SIZE, totalBytes), and
\* whose totalBytes is the file size.
C22_StatusAfterChunk ==
  \A k \in 1..Len(Acts) :
    (IsSend(Acts[k]) /\ IsChunk(Acts[k].msg)) =>
      /\ k + 1 <= Len(Acts)
      /\ IsPublish(Acts[k + 1])
      /\ Acts[k + 1].status.status = "transferring"
      /\ Acts[k + 1].status.bytesTransferred
           = Min((Acts[k].msg.chunkIndex + 1) * CHUNK_SIZE, file.size)
      /\ Acts[k + 1].status.totalBytes = file.size

\* A call in its pacing delay after chunk 0 of a file of more than one chunk;
\* the current status is the one published after that chunk.
C22_Witness ==
  /\ pc = "pacing"
  /\ Len(SentChunks) = 1
  /\ progressSubject /= NULL
  /\ progressSubject.status = "transferring"
  /\ progressSubject.bytesTransferred = CHUNK_SIZE
  /\ progressSubject.totalBytes > CHUNK_SIZE

\* ------------------------------------------------ the sender's Completed
\* C23: a Completed status of a sendFile call has bytesTransferred =
\* totalBytes = the file size, percentage 100 and no payload, comes after the
\* completion marker was emitted, and is the last thing the call publishes; a
\* call that ran to its end has published it.
C23_CompletedAfterMarker ==
  /\ \A k \in 1..Len(Acts) :
       (IsPublish(Acts[k]) /\ Acts[k].status.status = "completed") =>
         /\ Acts[k].status.bytesTransferred = file.size
         /\ Acts[k].status.totalBytes = file.size
         /\ Acts[k].status.percentage = 100
         /\ Acts[k].status.file = NoPayload
         /\ k = Len(Acts)
         /\ \E j \in 1..(k - 1) : IsSend(Acts[j]) /\ Acts[j].msg = CompleteMsg
  /\ pc = "done" =>
       /\ Acts /= <<>>
       /\ IsPublish(Acts[Len(Acts)])
       /\ Acts[Len(Acts)].status.status = "completed"

\* A call with chunks ran to its end and the current status is its Completed.
C23_Witness ==
  /\ pc = "done"
  /\ Len(SentChunks) >= 1
  /\ progressSubject /= NULL
  /\ progressSubject.status = "completed"
  /\ Sent[Len(Sent)] = CompleteMsg

\* ------------------------------------------------------ progress channel
\* The last n values of a sequence.
LastN(seq, n) == SubSeq(seq, Len(seq) - n + 1, Len(seq))

\* The statuses the current sendFile call has published since the subscription
\* (all of them when the subscription is older than the call).
PublishedSince ==
  LET all == StatusesOf(trace)
      m == IF observer.call = sends THEN observer.mark ELSE 0
  IN SubSeq(all, m + 1, Len(all))

\* No cleanup() came in between the steps of the current sendFile call.
NoCleanupInCall == \A k \in 1..Len(trace) : trace[k] /= CleanupEv

\* No cleanup() came since the current sendFile call began to publish: none in
\* between its steps, and none after its end (the value would be null).
NoCleanupSince == NoCleanupInCall /\ progressSubject /= NULL

\* C24: the progress channel starts at null; the current value is always the
\* value published last; a subscriber added at any time has first been handed
\* the value that was then current - the status the running call published
\* last, when it had published one - and after it every status published
\* since, in publish order; and cleanup() publishes null.
C24_LastValueCache ==
  /\ (pc = "idle" /\ ~observer.on) => progressSubject = NULL
  /\ observer.on =>
       /\ observer.seen /= <<>>
       /\ observer.seen[Len(observer.seen)] = progressSubject
       /\ (pc = "idle" /\ observer.call = sends) =>
            \A k \in 1..Len(observer.seen) : observer.seen[k] = NULL
       /\ NoCleanupSince =>
            /\ Len(observer.seen) >= Len(PublishedSince) + 1
            /\ LastN(observer.seen, Len(PublishedSince)) = PublishedSince
            /\ (observer.call = sends /\ observer.mark > 0) =>
                 observer.seen[Len(observer.seen) - Len(PublishedSince)]
                   = StatusesOf(trace)[observer.mark]
  /\ (~peer /\ dataConnection = 0 /\ ~isConnected /\ trace /= <<>>
        /\ trace[Len(trace)] = CleanupEv /\ pc \in {"reading", "pacing"})
       => progressSubject = NULL

\* A subscriber added during a pacing delay, after the call had published two
\* statuses, was handed the second of them and then two more.
C24_Witness ==
  /\ observer.on
  /\ observer.call = sends
  /\ observer.mark = 2
  /\ NoCleanupSince
  /\ Len(observer.seen) = 3
  /\ observer.seen[1] = StatusesOf(trace)[2]
  /\ observer.seen[1].status = "transferring"
  /\ observer.seen[1].bytesTransferred = CHUNK_SIZE

\* ---------------------------------------------------------------- payload
\* A status has no payload unless its phase is Completed.
PayloadOnlyCompleted(st) ==
  (st /= NULL /\ st.file /= NoPayload) => st.status = "completed"

\* C25: no status published by the sending or the receiving instance carries a
\* payload (file) unless its phase is Completed: not the statuses of sendFile,
\* not those of handleIncomingData, not the error status of the channel.
C25_PayloadOnlyCompleted ==
  /\ \A k \in 1..Len(SenderStatuses) : PayloadOnlyCompleted(SenderStatuses[k])
  /\ \A k \in 1..Len(ReceiverStatuses) : PayloadOnlyCompleted(ReceiverStatuses[k])
  /\ PayloadOnlyCompleted(progressSubject)
  /\ PayloadOnlyCompleted(rxProgress)

\* The channel reported an error right after a Completed status with its file
\* had been published.
C25_Witness ==
  /\ rxEvent.kind = "error"
  /\ rxEvent.before.rxProgress /= NULL
  /\ rxEvent.before.rxProgress.status = "completed"
  /\ rxEvent.before.rxProgress.file /= NoPayload
  /\ rxProgress.status = "error"
  /\ rxProgress.file = NoPayload

\* ------------------------------------------------ failures of the handler
\* C26: handleIncomingData never throws, and a failure it detects while
\* handling a chunk - here chunk data it cannot read - is answered by an error
\* status with a detail.
C26_FailuresReported ==
  /\ rxEvent.kind = "data" => ~rxEvent.threw
  /\ (HandledWhileReceiving("file-chunk") /\ rxEvent.data.data = Malformed)
       => PublishedError

\* ---------------------------------------------------------- channel error
\* The last event of the receiving instance was a channel error that came
\* while it was Receiving.
ErrorWhileReceiving ==
  /\ rxEvent.kind = "error"
  /\ rxEvent.before.fileMetadata /= NoMetadata

\* C27: a channel error during a transfer publishes an error status with the
\* transport's detail and abandons the transfer: the metadata and the received
\* chunks are dropped, and a chunk or completion message that comes while the
\* error status is current (no metadata came since) publishes nothing.
C27_ChannelErrorAbandons ==
  /\ ErrorWhileReceiving =>
       /\ rxProgress.status = "error"
       /\ rxProgress.error \in ErrorMessages
       /\ fileMetadata = NoMetadata
       /\ receivedChunks = <<>>
  /\ (/\ rxEvent.kind = "data"
      /\ rxEvent.data.type \in {"file-chunk", "file-complete"}
      /\ rxEvent.before.rxProgress /= NULL
      /\ rxEvent.before.rxProgress.status = "error")
     => rxEvent.published = <<>>

\* ------------------------------------------------ metadata while Receiving
\* The last handler call was handleIncomingData on a metadata message, made
\* while the instance held metadata and at least one stored chunk.
MetadataWhileReceiving ==
  /\ HandledWhileReceiving("file-metadata")
  /\ \E k \in 1..Len(rxEvent.before.receivedChunks) :
       rxEvent.before.receivedChunks[k].defined

\* C28: a metadata message that arrives while a transfer is Receiving replaces
\* the metadata and the received array: the new array holds only empty slots,
\* sized for the new file, so that no chunk of the earlier transfer is counted
\* in the bytes received or found in a reconstruction of the new one.
C28_MetadataDiscardsPrior ==
  MetadataWhileReceiving =>
    /\ fileMetadata = [fileName |-> rxEvent.data.fileName,
                       fileSize |-> rxEvent.data.fileSize,
                       fileType |-> rxEvent.data.fileType]
    /\ receivedChunks = NewArray(Ceil(rxEvent.data.fileSize, CHUNK_SIZE))
    /\ BytesReceived(receivedChunks) = 0
    /\ ReconstructLoop(receivedChunks, 1, Zeros(fileMetadata.fileSize), 0)
         = [threw |-> FALSE, fileArray |-> Zeros(fileMetadata.fileSize),
            totalReceived |-> 0]
    /\ Len(rxEvent.published) = 1
    /\ rxEvent.published[1].bytesTransferred = 0
    /\ rxEvent.published[1].totalBytes = rxEvent.data.fileSize

\* Metadata of a file of two chunks arrived while a chunk with bytes of an
\* earlier transfer was stored.
C28_Witness ==
  /\ MetadataWhileReceiving
  /\ BytesReceived(rxEvent.before.receivedChunks) > 0
  /\ rxEvent.data.fileSize = CHUNK_SIZE + 1
  /\ Len(receivedChunks) = 2

\* ----------------------------------------- completion with missing chunks
\* The chunks that are present, in index order, laid end to end.
RECURSIVE ConcatPresent(_)
ConcatPresent(array) ==
  IF array = <<>> THEN <<>>
  ELSE IF Head(array).defined
  THEN Concat(Head(array).bytes, ConcatPresent(Tail(array)))
  ELSE ConcatPresent(Tail(array))

\* The last handler call was handleIncomingData on the completion marker, made
\* while Receiving with at least one slot empty.
CompleteWithHole ==
  /\ HandledWhileReceiving("file-complete")
  /\ HasHole(rxEvent.before.receivedChunks)

\* C29 (as stated): on a completion marker with missing chunks the receiver
\* publishes Completed with a truncated file, which holds the chunks present
\* in index order and nothing else.
C29_TruncatedFile ==
  CompleteWithHole =>
    /\ ~rxEvent.threw
    /\ Len(rxEvent.published) = 1
    /\ rxEvent.published[1].status = "completed"
    /\ rxEvent.published[1].file /= NoPayload
    /\ rxEvent.published[1].file.content = ConcatPresent(rxEvent.before.receivedChunks)
    /\ rxEvent.published[1].file.size
         = ByteLength(ConcatPresent(rxEvent.before.receivedChunks))

\* C29 (amended): on a completion marker with missing chunks the receiver
\* does not publish an error.  When the chunks present hold no more than
\* fileSize bytes it publishes Completed with a file of fileSize bytes: the
\* chunks present in index order, empty slots skipped, followed by zero bytes
\* up to fileSize; the receiver is then Idle.  When they hold more, the
\* reconstruction throws, nothing is published and the receiver stays as it was.
C29_ZeroPaddedFile ==
  CompleteWithHole =>
    LET meta == rxEvent.before.fileMetadata
        present == ConcatPresent(rxEvent.before.receivedChunks)
    IN IF ByteLength(present) > meta.fileSize
       THEN /\ rxEvent.threw
            /\ rxEvent.published = <<>>
            /\ fileMetadata = meta
            /\ receivedChunks = rxEvent.before.receivedChunks
            /\ rxProgress = rxEvent.before.rxProgress
       ELSE /\ ~rxEvent.threw
            /\ Len(rxEvent.published) = 1
            /\ rxEvent.published[1].status = "completed"
            /\ rxEvent.published[1].error = NoError
            /\ rxEvent.published[1].bytesTransferred = meta.fileSize
            /\ rxEvent.published[1].file /= NoPayload
            /\ rxEvent.published[1].file.content
                 = Concat(present, Zeros(meta.fileSize - ByteLength(present)))
            /\ rxEvent.published[1].file.size = meta.fileSize
            /\ fileMetadata = NoMetadata
            /\ receivedChunks = <<>>

\* The marker came for a file of two chunks of which only the second, one
\* byte long, was stored: that byte opens the file and zero bytes follow.
C29_Witness ==
  /\ CompleteWithHole
  /\ ~rxEvent.threw
  /\ Len(rxEvent.before.receivedChunks) = 2
  /\ ~rxEvent.before.receivedChunks[1].defined
  /\ rxEvent.before.receivedChunks[2].defined
  /\ ByteLength(rxEvent.before.receivedChunks[2].bytes) = 1
  /\ Len(rxEvent.published) = 1
  /\ rxEvent.published[1].file.size = CHUNK_SIZE + 1

\* ------------------------------------------------ completion always ends
\* C30: every completion marker handled while Receiving, whatever chunks came
\* before it, ends with a terminal status (Completed or Errored) published and
\* the receiver Idle, its buffer and metadata discarded.
C30_CompleteAlwaysTerminal ==
  HandledWhileReceiving("file-complete") =>
    /\ ~rxEvent.threw
    /\ Len(rxEvent.published) = 1
    /\ rxEvent.published[1].status \in {"completed", "error"}
    /\ rxProgress = rxEvent.published[1]
    /\ fileMetadata = NoMetadata
    /\ receivedChunks = <<>>

\* ------------------------------------------------- agreement on the count
\* The receiving instance is handling the transfer of the sendFile call that
\* has run to its end: its deliveries begin with that call's metadata.
ReceivingThisCall ==
  /\ pc = "done"
  /\ rxLog /= <<>>
  /\ Sent /= <<>>
  /\ rxLog[1] = Sent[1]

\* C31: the receiver allocates as many slots from the metadata as sendFile
\* emits chunks for the file: every chunk of the call that arrives has its
\* index inside the allocated range and leaves the number of slots as it was,
\* and once all messages are delivered no slot is empty.
C31_ChunkCountsAgree ==
  /\ (ReceivingThisCall /\ fileMetadata /= NoMetadata) =>
       Len(receivedChunks) = Len(SentChunks)
  /\ HandledWhileReceiving("file-chunk") =>
       /\ rxEvent.data.chunkIndex < Len(rxEvent.before.receivedChunks)
       /\ Len(receivedChunks) = Len(rxEvent.before.receivedChunks)
  /\ DeliveredAll =>
       /\ Len(rxEvent.before.receivedChunks) = Len(SentChunks)
       /\ ~HasHole(rxEvent.before.receivedChunks)

\* All messages of a call with three chunks were delivered, and the three
\* slots were filled when the completion marker came.
C31_Witness ==
  /\ DeliveredAll
  /\ Len(SentChunks) = 3
  /\ Len(rxEvent.before.receivedChunks) = 3
  /\ ~HasHole(rxEvent.before.receivedChunks)

\* ------------------------------------------------- one connection per call
\* C32: all messages of one sendFile call (metadata, chunks, completion marker)
\* are sent on one and the same data connection, whatever connection events
\* or cleanup() calls come during the file read or a pacing delay.
C32_OneConnectionPerCall ==
  \A k \in 1..Len(Sends(trace)) :
    Sends(trace)[k].conn = Sends(trace)[1].conn

\* ------------------------------------------------- nothing after the reset
\* The current sendFile call was cut by cleanup() while it waited (for the
\* file read or a pacing timer) and no connection was set since: the call is
\* still waiting, or has ended on the TypeError of its next send, and
\* dataConnection is null.
CleanedAndUnconnected ==
  /\ dataConnection = 0
  /\ pc \in {"reading", "pacing"} \/ (pc = "rejected" /\ sendError = "TypeError")

\* C33: after cleanup() has published null during the file read or a pacing
\* delay of sendFile, and as long as no new connection is set, the call
\* publishes no further status: the latest progress value stays null and the
\* reset is the last event of the call.
C33_NothingAfterReset ==
  CleanedAndUnconnected =>
    /\ progressSubject = NULL
    /\ trace /= <<>>
    /\ trace[Len(trace)] = CleanupEv

\* cleanup() came in a pacing delay after a chunk status was published, the
\* timer has fired with no connection set, and the value is still null.
C33_Witness ==
  /\ CleanedAndUnconnected
  /\ pc = "rejected"
  /\ sendError = "TypeError"
  /\ Len(Publishes(trace)) >= 2
  /\ progressSubject = NULL

\* ------------------------------------------------- one download at most
\* C34: whatever the order of the completed notifications (possibly repeated),
\* the 100 ms auto-download timer, the 600 ms auto-click timer, the timer of
\* ngAfterViewInit and the manual clicks, one Download component calls
\* WebRTCService.downloadFile successfully at most once.
C34_DownloadsAtMostOnce == download.downloads <= 1

\* A first call threw, a later one returned, and a trigger that came after it
\* was ignored; both timers of the subscription have fired.
C34_Witness ==
  /\ download.downloads = 1
  /\ download.thrown
  /\ download.ignored
  /\ download.downloadTriggered
  /\ download.timers = [auto |-> 0, click |-> 0, view |-> 0]

====
